---------------------------- MODULE Spec2Model ----------------------------
(***************************************************************************)
(* A model of the finance-assistant payment pipeline: the accounting       *)
(* client (services/conta49.ts), the banking client                        *)
(* (services/bancoInter.ts), the three scheduled routes (charges,          *)
(* tax documents, pay-tax-documents) and the two tables of the store       *)
(* (server/db/schema.ts).                                                  *)
(*                                                                         *)
(* Strings of the program are TLA+ strings; the string functions the code  *)
(* uses (startsWith, includes, trim, the /i/ regular expression) are        *)
(* computed character by character with SubSeq.                            *)
(***************************************************************************)
EXTENDS Naturals, Sequences, FiniteSets, Bags, TLC

VARIABLES
    \* ---- one call of a function of the accounting client
    fn,             \* the function called, "none" when no call is modelled
    arg,            \* its argument (what the outside world answers)
    ret,            \* its result
    returned,       \* whether the call has returned
    \* ---- the store (server/db/schema.ts)
    paymentEvents,  \* bag of rows of payment_events
    documents,      \* bag of rows of finance-assistant_documents
    \* ---- the banking service, as the routes have used it
    boletoAccepted, \* document id -> number of settlements the bank accepted
    \* ---- the invocations of the routes, one slot per concurrent request
    pc,             \* slot -> position in the handler
    route,          \* slot -> "charges" | "documents" | "payTax" | "none"
    pendingCharges, \* slot -> the handler's pendingCharges
    idx,            \* slot -> index of the loop over the charges / documents
    taxDocuments,   \* slot -> the handler's taxDocuments
    newDocuments,   \* slot -> the handler's newDocuments
    boletos,        \* slot -> the handler's boletos
    response,       \* slot -> HTTP status of the answer, 0 while running
    summary,        \* slot -> body of the answer
    authorized,     \* slot -> whether the request carries "Bearer <CRON_SECRET>"
    log,            \* slot -> what this invocation asked of the bank, in order
    atStart,        \* slot -> the two tables as they were when the invocation began
    fetched,        \* slot -> the accounting service's answer to this invocation
    interToken,     \* slot -> the handler's banking token, "" before it has one
    auths,          \* slot -> authentications made by this invocation
    passes,         \* invocations started so far
    lastPass        \* what the last finished invocation was and what it fetched
-----------------------------------------------------------------------------
(***************************************************************************)
(* Bounds of the model.                                                    *)
(***************************************************************************)
MaxPasses == 3
MaxCharges == 3
MaxDocs == 2
MaxParagraphs == 2

-----------------------------------------------------------------------------
(***************************************************************************)
(* Strings.                                                                *)
(***************************************************************************)
Char(s, i) == SubSeq(s, i, i)

\* String.prototype.startsWith
StartsWith(s, p) == Len(s) >= Len(p) /\ SubSeq(s, 1, Len(p)) = p

\* String.prototype.includes, for a non-empty needle
Includes(s, p) ==
    \E i \in 1..Len(s) : i + Len(p) - 1 <= Len(s) /\ SubSeq(s, i, i + Len(p) - 1) = p

WhiteSpace == {" ", "\n", "\t"}

RECURSIVE TrimStart(_)
TrimStart(s) ==
    IF Len(s) > 0 /\ Char(s, 1) \in WhiteSpace
    THEN TrimStart(SubSeq(s, 2, Len(s)))
    ELSE s

RECURSIVE TrimEnd(_)
TrimEnd(s) ==
    IF Len(s) > 0 /\ Char(s, Len(s)) \in WhiteSpace
    THEN TrimEnd(SubSeq(s, 1, Len(s) - 1))
    ELSE s

\* String.prototype.trim
Trim(s) == TrimEnd(TrimStart(s))

\* String.prototype.split(sep)[0], for a one-character sep: the text before
\* the first sep, the whole text when there is none.
FirstPart(s, sep) ==
    LET at == { i \in 1..Len(s) : Char(s, i) = sep }
    IN  IF at = {} THEN s
        ELSE SubSeq(s, 1, (CHOOSE i \in at : \A j \in at : i <= j) - 1)

\* An optional string: null / undefined is Absent.
Absent == [present |-> FALSE, value |-> ""]
Some(s) == [present |-> TRUE, value |-> s]

-----------------------------------------------------------------------------
(***************************************************************************)
(* services/conta49.ts: invoice URLs.                                      *)
(***************************************************************************)
PreviewPath == "/b/preview/"
AsaasPreview == "https://www.asaas.com/b/preview/"

NoSlash(s) == \A i \in 1..Len(s) : Char(s, i) # "/"

\* The places where /\/i\/([^\/]+)$/ matches: "/i/", then one or more
\* characters other than "/", up to the end of the string.
ShortLinkMatches(url) ==
    { i \in 1..Len(url) :
        /\ i + 3 <= Len(url)
        /\ SubSeq(url, i, i + 2) = "/i/"
        /\ NoSlash(SubSeq(url, i + 3, Len(url))) }

\* A variant that forgets the guard on URLs already in preview form.
parseInvoiceUrlNoPreviewGuard(invoiceUrl) ==
    LET matches == ShortLinkMatches(invoiceUrl)
    IN  IF matches # {}
        THEN LET i == CHOOSE i \in matches : \A j \in matches : i <= j
             IN  AsaasPreview \o SubSeq(invoiceUrl, i + 3, Len(invoiceUrl))
        ELSE invoiceUrl

parseInvoiceUrl(invoiceUrl) ==
    IF Includes(invoiceUrl, PreviewPath)
    THEN invoiceUrl
    ELSE LET matches == ShortLinkMatches(invoiceUrl)
         IN  IF matches # {}
             THEN LET i == CHOOSE i \in matches : \A j \in matches : i <= j
                  IN  AsaasPreview \o SubSeq(invoiceUrl, i + 3, Len(invoiceUrl))
             ELSE invoiceUrl

-----------------------------------------------------------------------------
(***************************************************************************)
(* services/conta49.ts: the invoice page scraper.  A page is what the GET  *)
(* of the URL gave: ok is FALSE when the request failed or the body is not *)
(* a string; otherwise the page is its <p> elements in document order,     *)
(* each with its text and whether it lies inside a .pix-section element    *)
(* and whether it is the next sibling of an h5 holding the PIX heading.    *)
(***************************************************************************)
PIX_PREFIX == "00020101"
PIX_MARKER == "br.gov.bcb.pix"

\* cheerio's .text() of a selection: the texts of its elements, concatenated
RECURSIVE TextOf(_)
TextOf(ps) == IF ps = <<>> THEN "" ELSE Head(ps).text \o TextOf(Tail(ps))

InPixSection(p) == p.inPixSection
AfterPixHeading(p) == p.afterPixHeading
IsPixParagraph(p) ==
    Includes(Trim(p.text), PIX_MARKER) /\ StartsWith(Trim(p.text), PIX_PREFIX)

\* A variant that returns the text of the PIX section unchecked.
PixSectionCodeUnchecked(page) ==
    IF page.hasPixSection
    THEN Some(Trim(TextOf(SelectSeq(page.paragraphs, InPixSection))))
    ELSE Absent

\* $(".pix-section"): the trimmed text of its paragraphs, if it starts as a PIX code
PixSectionCode(page) ==
    LET pixCode == Trim(TextOf(SelectSeq(page.paragraphs, InPixSection)))
    IN  IF page.hasPixSection /\ StartsWith(pixCode, PIX_PREFIX)
        THEN Some(pixCode)
        ELSE Absent

\* $('h5:contains("Codigo Pix copia e cola")').next("p")
PixHeadingCode(page) ==
    LET pixCode == Trim(TextOf(SelectSeq(page.paragraphs, AfterPixHeading)))
    IN  IF page.hasPixHeading /\ StartsWith(pixCode, PIX_PREFIX)
        THEN Some(pixCode)
        ELSE Absent

\* $("p").filter(...).first()
PixParagraphCode(page) ==
    LET pixParagraphs == SelectSeq(page.paragraphs, IsPixParagraph)
    IN  IF Len(pixParagraphs) > 0
        THEN Some(Trim(Head(pixParagraphs).text))
        ELSE Absent

extractPixCodeFromAsaPreviewPage(page) ==
    IF ~page.ok THEN Absent              \* the catch: any failure gives null
    ELSE IF PixSectionCode(page).present THEN PixSectionCode(page)
    ELSE IF PixHeadingCode(page).present THEN PixHeadingCode(page)
    ELSE PixParagraphCode(page)

-----------------------------------------------------------------------------
(***************************************************************************)
(* services/conta49.ts: pending charges.  The accounting service's answer  *)
(* to one getPendingCharges is: whether the two-step authentication        *)
(* succeeded, whether CONTA49_ACCOUNT_ID is set, whether the batched       *)
(* envelope holds a payload at index 1, and the rows of that payload.      *)
(* web maps an invoice URL to the page a GET of it gives.                  *)
(***************************************************************************)
PENDING == "PENDING"
OVERDUE == "OVERDUE"
RECEIVED == "RECEIVED"

Failure == [ok |-> FALSE]
Success(v) == [ok |-> TRUE, value |-> v]

\* z.enum([PENDING, OVERDUE, RECEIVED]); the other fields of a row of the
\* model have the types ChargeSchema asks for.
ChargeSchema(c) == c.status \in {PENDING, OVERDUE, RECEIVED}

\* A variant that drops the rows that do not match and returns the others.
fetchAccountChargesLenient(answer) ==
    IF answer.hasPayload THEN Success(SelectSeq(answer.charges, ChargeSchema)) ELSE Failure

fetchAccountCharges(answer) ==
    IF /\ answer.hasPayload
       /\ \A i \in 1..Len(answer.charges) : ChargeSchema(answer.charges[i])
    THEN Success(answer.charges)
    ELSE Failure

\* A variant that keeps only the PENDING charges.
IsPendingOnly(payment) == payment.status = PENDING

IsPending(payment) == payment.status = PENDING \/ payment.status = OVERDUE

RECURSIVE FilterPending(_)
FilterPending(charges) ==
    IF charges = <<>> THEN <<>>
    ELSE IF IsPending(Head(charges))
         THEN <<Head(charges)>> \o FilterPending(Tail(charges))
         ELSE FilterPending(Tail(charges))

WithInvoiceUrl(charge) ==
    [charge EXCEPT !.invoiceUrl = parseInvoiceUrl(charge.invoiceUrl)]

FailedPage ==
    [ok |-> FALSE, hasPixSection |-> FALSE, hasPixHeading |-> FALSE,
     paragraphs |-> <<>>]

PageAt(web, url) == IF url \in DOMAIN web THEN web[url] ELSE FailedPage

\* One turn of the loop of enhanceChargesWithPaymentCodes: pixCode is set
\* only when the scraper gave a non-empty string.
EnhancedCharge(charge, web) ==
    LET pixCode == extractPixCodeFromAsaPreviewPage(PageAt(web, charge.invoiceUrl))
    IN  [id |-> charge.id, status |-> charge.status,
         description |-> charge.description, value |-> charge.value,
         invoiceUrl |-> charge.invoiceUrl,
         pixCode |-> IF pixCode.present /\ pixCode.value # ""
                     THEN pixCode ELSE Absent]

\* An enrichment that leaves out the charges whose page gave no code.
RECURSIVE enhanceChargesDroppingMisses(_, _)
enhanceChargesDroppingMisses(charges, web) ==
    IF charges = <<>> THEN <<>>
    ELSE LET enhanced == EnhancedCharge(Head(charges), web)
         IN  (IF enhanced.pixCode.present THEN <<enhanced>> ELSE <<>>)
                 \o enhanceChargesDroppingMisses(Tail(charges), web)

enhanceChargesWithPaymentCodes(charges, web) ==
    [i \in 1..Len(charges) |-> EnhancedCharge(charges[i], web)]

getPendingCharges(answer, web) ==
    IF ~answer.authOk \/ ~answer.accountIdSet THEN Failure
    ELSE LET charges == fetchAccountCharges(answer)
         IN  IF ~charges.ok THEN Failure
             ELSE LET pending == FilterPending(charges.value)
                      pendingCharges_ == [i \in 1..Len(pending) |-> WithInvoiceUrl(pending[i])]
                  IN  Success(enhanceChargesWithPaymentCodes(pendingCharges_, web))

-----------------------------------------------------------------------------
(***************************************************************************)
(* services/conta49.ts: tax documents.                                     *)
(***************************************************************************)
\* z.string().datetime() accepts these among the created_at values of the model.
IsoDateTimes == {"2025-03-01T12:00:00Z", "2025-04-01T09:30:00Z"}

Conta49TaxDocumentSchema(doc) == doc.created_at \in IsoDateTimes

Contains(tags, tag) == \E i \in 1..Len(tags) : tags[i] = tag

\* A variant that knows only the "guia" tag.
IsTaxDocumentGuiaOnly(doc) == Contains(doc.tags, "guia")

IsTaxDocument(doc) == Contains(doc.tags, "guia") \/ Contains(doc.tags, "Boleto")

RECURSIVE FilterTaxDocuments(_)
FilterTaxDocuments(docs) ==
    IF docs = <<>> THEN <<>>
    ELSE IF IsTaxDocument(Head(docs))
         THEN <<Head(docs)>> \o FilterTaxDocuments(Tail(docs))
         ELSE FilterTaxDocuments(Tail(docs))

getTaxDocuments(answer) ==
    IF ~answer.authOk THEN Failure
    ELSE IF /\ answer.hasPayload
            /\ \A i \in 1..Len(answer.documents) :
                   Conta49TaxDocumentSchema(answer.documents[i])
         THEN Success(FilterTaxDocuments(answer.documents))
         ELSE Failure

-----------------------------------------------------------------------------
(***************************************************************************)
(* services/conta49.ts: the payment code of a document.  The answer is:    *)
(* whether authentication succeeded, whether the download URL came back    *)
(* and is a URL, the type of the first content block of the model's        *)
(* answer, whether its text is JSON, and the JSON value: isObject, and     *)
(* for an object its fields, each [t |-> its JSON type, s |-> its text].   *)
(***************************************************************************)
BoletoKeys == {"payment_code", "value", "expiration_date"}

\* z.object({payment_code: z.string(), value: z.string(), expiration_date: z.string()})
boletoSchema(json) ==
    IF /\ json.isObject
       /\ \A k \in BoletoKeys : k \in DOMAIN json.fields /\ json.fields[k].t = "string"
    THEN Success([k \in BoletoKeys |-> json.fields[k].s])
    ELSE Failure

fetchConta49DocumentPaymentCode(answer) ==
    IF ~answer.authOk \/ ~answer.urlOk THEN Failure
    ELSE IF answer.contentType # "text" THEN Failure
    ELSE IF ~answer.isJson THEN Failure          \* JSON.parse throws
    ELSE boletoSchema(answer.json)

-----------------------------------------------------------------------------
(***************************************************************************)
(* services/conta49.ts: authentication.  What one authenticateConta49      *)
(* meets: the three credentials of the environment (unset is Absent),      *)
(* whether the identity provider accepts them and answers in the expected  *)
(* shape, whether the session exchange answers, and the set-cookie header  *)
(* of its answer (hasCookies is FALSE when the header is missing).         *)
(***************************************************************************)
SessionCookieName == "session="

AuthAnswer(email, password, apiKey, identityOk, signInOk, hasCookies, cookies) ==
    [email |-> email, password |-> password, apiKey |-> apiKey,
     identityOk |-> identityOk, signInOk |-> signInOk,
     hasCookies |-> hasCookies, cookies |-> cookies]

\* !process.env.X: unset or empty
Unset(credential) == ~credential.present \/ credential.value = ""

IdToken == "idToken"

firebaseAuthenticate(answer) ==
    IF Unset(answer.email) \/ Unset(answer.password) \/ Unset(answer.apiKey)
    THEN Failure
    ELSE IF ~answer.identityOk THEN Failure
    ELSE Success(IdToken)

\* headers["set-cookie"]: a non-empty array of strings, one of which starts
\* with the session cookie's name
Conta49SignResponseSchema(answer) ==
    /\ answer.hasCookies
    /\ Len(answer.cookies) > 0
    /\ \E i \in 1..Len(answer.cookies) : StartsWith(answer.cookies[i], SessionCookieName)

\* Array.prototype.find(cookie => cookie.startsWith("session="))
FindSessionCookie(cookies) ==
    LET at == { i \in 1..Len(cookies) : StartsWith(cookies[i], SessionCookieName) }
    IN  cookies[CHOOSE i \in at : \A j \in at : i <= j]

\* String.prototype.replace(pattern, "") for a string pattern: the first
\* occurrence of pattern is taken out.
RemoveFirst(s, pattern) ==
    LET at == { i \in 1..Len(s) : /\ i + Len(pattern) - 1 <= Len(s)
                                  /\ SubSeq(s, i, i + Len(pattern) - 1) = pattern }
    IN  IF at = {} THEN s
        ELSE LET i == CHOOSE i \in at : \A j \in at : i <= j
             IN  SubSeq(s, 1, i - 1) \o SubSeq(s, i + Len(pattern), Len(s))

\* A variant that keeps the cookie's attributes in the session value.
SessionValueWithAttributes(sessionCookie) == RemoveFirst(sessionCookie, SessionCookieName)

\* (sessionCookie.split(";")[0] ?? "").replace("session=", "")
SessionValue(sessionCookie) == RemoveFirst(FirstPart(sessionCookie, ";"), SessionCookieName)

conta49SignIn(answer) ==
    IF ~answer.signInOk THEN Failure
    ELSE IF ~Conta49SignResponseSchema(answer) THEN Failure
    ELSE Success(SessionValue(FindSessionCookie(answer.cookies)))

authenticateConta49(answer) ==
    LET firebaseAuthResponse == firebaseAuthenticate(answer)
    IN  IF ~firebaseAuthResponse.ok THEN Failure
        ELSE LET conta49AuthResponse == conta49SignIn(answer)
             IN  IF ~conta49AuthResponse.ok THEN Failure
                 ELSE Success([firebaseAuth |-> firebaseAuthResponse.value,
                               sessionCookie |-> conta49AuthResponse.value])

\* The cases authenticateConta49 is tried on.
Credentials == { Absent, Some("secret") }
CookieHeaders ==
    { <<>>,
      <<"Path=/; session=zz">>,
      <<"xsession=1">>,
      <<"session=abc">>,
      <<"session=; Path=/">>,
      <<"session=a=session=b; HttpOnly">>,
      <<"other=1; Path=/", "session=abc; Path=/; HttpOnly">>,
      <<"session=s1; Secure", "session=s2">> }
AuthAnswers ==
    { AuthAnswer(email, password, apiKey, identityOk, TRUE, TRUE, cookies) :
        email \in Credentials, password \in Credentials, apiKey \in Credentials,
        identityOk \in BOOLEAN, cookies \in CookieHeaders }
    \cup { AuthAnswer(Some("a@b.c"), Some("secret"), Some("key"), TRUE, signInOk, FALSE, <<>>) :
             signInOk \in BOOLEAN }
    \cup { AuthAnswer(Some(""), Some("secret"), Some("key"), TRUE, TRUE, TRUE, <<"session=abc">>) }

-----------------------------------------------------------------------------
(***************************************************************************)
(* The outside world of the model: the inputs the calls are tried on.      *)
(***************************************************************************)
SeqsUpTo(S, n) == UNION { [1..k -> S] : k \in 0..n }

UrlPrefixes == {"https://www.asaas.com", "https://sandbox.asaas.com/c", ""}
UrlPaths == {"/i/", "/b/preview/", "/x/", "/b/preview/i/"}
UrlIds == {"ABC123", "", "a/b", "x?y=1"}
UrlSuffixes == {"", "/"}
UrlInputs ==
    { p \o m \o i \o x : p \in UrlPrefixes, m \in UrlPaths, i \in UrlIds, x \in UrlSuffixes }

Texts ==
    { "00020101br.gov.bcb.pix5204",        \* a PIX code
      "  00020101br.gov.bcb.pix6304\n",    \* a PIX code in white space
      "00020101ABC",                       \* the prefix without the marker
      "br.gov.bcb.pix00020101",            \* the marker, wrong start
      "Pague com Pix",
      "" }
Paragraphs == [text : Texts, inPixSection : BOOLEAN, afterPixHeading : BOOLEAN]
PageInputs ==
    {FailedPage} \cup
    { pg \in [ok : {TRUE}, hasPixSection : BOOLEAN, hasPixHeading : BOOLEAN,
              paragraphs : SeqsUpTo(Paragraphs, MaxParagraphs)] :
        /\ (\E i \in 1..Len(pg.paragraphs) : pg.paragraphs[i].inPixSection)
               => pg.hasPixSection
        /\ (\E i \in 1..Len(pg.paragraphs) : pg.paragraphs[i].afterPixHeading)
               => pg.hasPixHeading }

\* The charges the accounting service knows, and the pages of their invoices.
Charge(id, status, description, value, invoiceUrl) ==
    [id |-> id, status |-> status, description |-> description,
     value |-> value, invoiceUrl |-> invoiceUrl]
AccountChargeList ==
    << Charge("c1", PENDING, "Mensalidade 01", 10000, "https://www.asaas.com/i/A1"),
       Charge("c2", OVERDUE, "Mensalidade 02", 25050, "https://www.asaas.com/b/preview/A2"),
       Charge("c3", PENDING, "Mensalidade 03", 9990, "https://www.asaas.com/i/A3"),
       Charge("c4", PENDING, "Mensalidade 04", 100, "https://www.asaas.com/i/A4"),
       Charge("c5", RECEIVED, "Mensalidade 05", 7000, "https://www.asaas.com/i/A5") >>
RefundedCharge ==
    Charge("c6", "REFUNDED", "Mensalidade 06", 7000, "https://www.asaas.com/i/A6")
\* A pending charge whose invoice page cannot be fetched.
UnreachableCharge ==
    Charge("c7", PENDING, "Mensalidade 07", 4500, "https://www.asaas.com/i/A7")
AccountCharges ==
    { AccountChargeList[i] : i \in 1..Len(AccountChargeList) }
    \cup {RefundedCharge, UnreachableCharge}
ChargeIds == { c.id : c \in AccountCharges }

Paragraph(text, inPixSection, afterPixHeading) ==
    [text |-> text, inPixSection |-> inPixSection, afterPixHeading |-> afterPixHeading]
Page(hasPixSection, hasPixHeading, paragraphs) ==
    [ok |-> TRUE, hasPixSection |-> hasPixSection, hasPixHeading |-> hasPixHeading,
     paragraphs |-> paragraphs]
Web ==
    ( "https://www.asaas.com/b/preview/A1" :>
          Page(TRUE, FALSE, <<Paragraph("00020101br.gov.bcb.pixA1", TRUE, FALSE)>>) ) @@
    ( "https://www.asaas.com/b/preview/A2" :>
          Page(FALSE, TRUE, <<Paragraph("Pague com Pix", FALSE, FALSE),
                              Paragraph(" 00020101br.gov.bcb.pixA2 ", FALSE, TRUE)>>) ) @@
    ( "https://www.asaas.com/b/preview/A3" :>
          Page(TRUE, FALSE, <<Paragraph("Pague com Pix", TRUE, FALSE),
                              Paragraph("00020101br.gov.bcb.pixA3", FALSE, FALSE)>>) ) @@
    ( "https://www.asaas.com/b/preview/A4" :>
          Page(TRUE, TRUE, <<Paragraph("Pagamento por boleto", TRUE, FALSE)>>) ) @@
    ( "https://www.asaas.com/b/preview/A5" :>
          Page(TRUE, FALSE, <<Paragraph("00020101br.gov.bcb.pixA5", TRUE, FALSE)>>) )

ChargesAnswer(authOk, accountIdSet, hasPayload, charges) ==
    [authOk |-> authOk, accountIdSet |-> accountIdSet, hasPayload |-> hasPayload,
     charges |-> charges]
ChargesAnswers ==
    { ChargesAnswer(TRUE, TRUE, TRUE, cs) : cs \in SeqsUpTo(AccountCharges, MaxCharges) }
    \cup { ChargesAnswer(FALSE, TRUE, TRUE, <<>>), ChargesAnswer(TRUE, FALSE, TRUE, <<>>),
           ChargesAnswer(TRUE, TRUE, FALSE, <<>>) }

\* The documents of the account: the tag lists tried, and the rows built of them.
TagLists ==
    { <<>>, <<"guia">>, <<"Boleto">>, <<"invoice">>, <<"boleto">>,
      <<"invoice", "guia">>, <<"Boleto", "invoice">>, <<"Guia", "BOLETO">> }
DocIdAt(i) == "d" \o ToString(i)
Document(id, tags, created_at) ==
    [id |-> id, name |-> id \o ".pdf", title |-> "Guia " \o id, description |-> "",
     tags |-> tags, created_at |-> created_at]
DocumentsAnswer(authOk, hasPayload, docs) ==
    [authOk |-> authOk, hasPayload |-> hasPayload, documents |-> docs]
DocumentsAnswers ==
    { DocumentsAnswer(TRUE, TRUE,
                      [i \in 1..Len(ts) |-> Document(DocIdAt(i), ts[i], "2025-03-01T12:00:00Z")]) :
          ts \in SeqsUpTo(TagLists, MaxDocs) }
    \cup { DocumentsAnswer(FALSE, TRUE, <<>>), DocumentsAnswer(TRUE, FALSE, <<>>),
           DocumentsAnswer(TRUE, TRUE, <<Document("d1", <<"guia">>, "yesterday")>>),
           DocumentsAnswer(TRUE, TRUE, <<Document("d1", <<"guia">>, "2025-03-01T12:00:00Z"),
                                         Document("d2", <<"Boleto">>, "yesterday")>>) }

\* What the document-understanding service may answer.
JsonString(s) == [t |-> "string", s |-> s]
JsonNumber == [t |-> "number", s |-> ""]
PaymentCodeValues ==
    { JsonString("858900000050682103852509790716250721167229931410"),           \* 48 digits
      JsonString("85890000005068210385250979071625072116722993141"),            \* 47 digits
      JsonString("8589000000506821038525097907162507211672299314100"),          \* 49 digits
      JsonString("81670000001-0 75610521202-8 50331032515-7 53710070000-5"),    \* 48 digits, separated
      JsonString("85890000005068210385250979071625072116722993141X"),           \* 48 characters
      JsonString(""),
      JsonNumber }
ValueValues == { JsonString("123.45"), JsonString(""), JsonNumber }
DateValues == { JsonString("2024-03-15"), JsonString("") }
JsonObjects ==
    { [payment_code |-> pcode, value |-> v, expiration_date |-> d] :
          pcode \in PaymentCodeValues, v \in ValueValues, d \in DateValues }
    \cup { [payment_code |-> pcode, value |-> v] : pcode \in PaymentCodeValues, v \in ValueValues }
    \cup { [value |-> v, expiration_date |-> d] : v \in ValueValues, d \in DateValues }
    \cup { [payment_code |-> pcode, value |-> JsonString("123.45"),
            expiration_date |-> JsonString("2024-03-15"), note |-> JsonString("ok")] :
               pcode \in PaymentCodeValues }
ExtractionAnswer(authOk, urlOk, contentType, isJson, json) ==
    [authOk |-> authOk, urlOk |-> urlOk, contentType |-> contentType,
     isJson |-> isJson, json |-> json]
NoJson == [isObject |-> FALSE, fields |-> <<>>]
ExtractionAnswers ==
    { ExtractionAnswer(TRUE, TRUE, "text", TRUE, [isObject |-> TRUE, fields |-> o]) :
          o \in JsonObjects }
    \cup { ExtractionAnswer(FALSE, TRUE, "text", TRUE, NoJson),
           ExtractionAnswer(TRUE, FALSE, "text", TRUE, NoJson),
           ExtractionAnswer(TRUE, TRUE, "tool_use", TRUE, NoJson),
           ExtractionAnswer(TRUE, TRUE, "text", FALSE, NoJson),
           ExtractionAnswer(TRUE, TRUE, "text", TRUE, NoJson) }

-----------------------------------------------------------------------------
(***************************************************************************)
(* services/bancoInter.ts.                                                 *)
(***************************************************************************)
AccessToken == "access_token"
\* new Date().toISOString() at the time of the requests, and its date part.
Now == "2026-11-03T12:00:00.000Z"
Today == FirstPart(Now, "T")

\* A variant that takes the description for the code and the code for the
\* description.
createPixCopyPastePaymentSwapped(value, copyPasteCode, description) ==
    [valor |-> value, dataPagamento |-> Absent, descricao |-> copyPasteCode,
     destinatario |-> [tipo |-> "PIX_COPIA_E_COLA", pixCopiaECola |-> description]]

createPixCopyPastePayment(value, copyPasteCode, description) ==
    [valor |-> value, dataPagamento |-> Absent, descricao |-> description,
     destinatario |-> [tipo |-> "PIX_COPIA_E_COLA", pixCopiaECola |-> copyPasteCode]]

\* A variant that posts the payment as it was given.
PixRequestAsGiven(payment, now) == payment

\* The body makePixPayment posts when the clock reads now: the payment, dated
\* with today's date when it has no date.
PixRequestAt(payment, now) ==
    IF ~payment.dataPagamento.present \/ payment.dataPagamento.value = ""
    THEN [payment EXCEPT !.dataPagamento = Some(FirstPart(now, "T"))]
    ELSE payment

PixRequest(payment) == PixRequestAt(payment, Now)

\* Payments handed to makePixPayment, and what the clock reads then.
Clock == { Now, "2026-11-04T01:30:00.000Z", "2026-12-31T23:59:59.999Z" }
PaymentDates == { Absent, Some(""), Some("2025-12-24"), Some(Today) }
PixPaymentInputs ==
    { [payment |-> [createPixCopyPastePayment(c.value, c.code, c.description)
                        EXCEPT !.dataPagamento = date],
       now |-> now] :
        c \in { [value |-> 150, code |-> "00020101A1", description |-> "Mensalidade"],
                [value |-> 0, code |-> "", description |-> ""] },
        date \in PaymentDates, now \in Clock }

\* The body createBoletoBankAccountPayment posts.
BoletoRequest(boleto) ==
    [codBarraLinhaDigitavel |-> boleto.payment_code, valorPagar |-> boleto.value,
     dataVencimento |-> boleto.expiration_date]

-----------------------------------------------------------------------------
(***************************************************************************)
(* The state.                                                              *)
(***************************************************************************)
Slots == {1, 2}
Routes == {"charges", "documents", "payTax"}

callVars == <<fn, arg, ret, returned>>
storeVars == <<paymentEvents, documents>>
bankVars == <<boletoAccepted>>
slotVars ==
    <<pc, route, pendingCharges, idx, taxDocuments, newDocuments, boletos,
      response, summary, authorized, log, atStart, fetched, interToken, auths>>
passVars == <<passes, lastPass>>
vars == <<callVars, storeVars, bankVars, slotVars, passVars>>

DocIds == { DocIdAt(i) : i \in 1..(MaxDocs + 1) }

NoCall ==
    /\ fn = "none"
    /\ arg = <<>>
    /\ ret = <<>>
    /\ returned = FALSE

NoAuths == [accounting |-> 0, banking |-> 0]
NoTables == [paymentEvents |-> EmptyBag, documents |-> EmptyBag]
NoPass == [valid |-> FALSE, answer |-> <<>>]
NoBody == <<>>
NoLastPass == [route |-> "none", valid |-> FALSE, answer |-> <<>>]

\* The deployment before its first scheduled request: empty tables, no request running.
Idle ==
    /\ paymentEvents = EmptyBag
    /\ documents = EmptyBag
    /\ boletoAccepted = [id \in DocIds |-> 0]
    /\ pc = [p \in Slots |-> "idle"]
    /\ route = [p \in Slots |-> "none"]
    /\ pendingCharges = [p \in Slots |-> <<>>]
    /\ idx = [p \in Slots |-> 0]
    /\ taxDocuments = [p \in Slots |-> <<>>]
    /\ newDocuments = [p \in Slots |-> <<>>]
    /\ boletos = [p \in Slots |-> <<>>]
    /\ response = [p \in Slots |-> 0]
    /\ summary = [p \in Slots |-> NoBody]
    /\ authorized = [p \in Slots |-> FALSE]
    /\ log = [p \in Slots |-> <<>>]
    /\ atStart = [p \in Slots |-> NoTables]
    /\ fetched = [p \in Slots |-> NoPass]
    /\ interToken = [p \in Slots |-> ""]
    /\ auths = [p \in Slots |-> NoAuths]
    /\ passes = 0
    /\ lastPass = NoLastPass

-----------------------------------------------------------------------------
(***************************************************************************)
(* SpecFn: one call of one function of the accounting client, on each of   *)
(* the inputs above.                                                       *)
(***************************************************************************)
InitFn ==
    /\ Idle
    /\ ret = <<>>
    /\ returned = FALSE
    /\ \/ fn = "parseInvoiceUrl" /\ arg \in UrlInputs
       \/ fn = "extractPixCodeFromAsaPreviewPage" /\ arg \in PageInputs
       \/ fn = "getPendingCharges" /\ arg \in ChargesAnswers
       \/ fn = "getTaxDocuments" /\ arg \in DocumentsAnswers
       \/ fn = "fetchConta49DocumentPaymentCode" /\ arg \in ExtractionAnswers
       \/ fn = "makePixPayment" /\ arg \in PixPaymentInputs
       \/ fn = "authenticateConta49" /\ arg \in AuthAnswers

Return(f, value) ==
    /\ fn = f
    /\ ~returned
    /\ ret' = value
    /\ returned' = TRUE
    /\ UNCHANGED <<fn, arg, storeVars, bankVars, slotVars, passVars>>

CallParseInvoiceUrl == Return("parseInvoiceUrl", parseInvoiceUrl(arg))

CallExtractPixCode ==
    Return("extractPixCodeFromAsaPreviewPage", extractPixCodeFromAsaPreviewPage(arg))

CallGetPendingCharges == Return("getPendingCharges", getPendingCharges(arg, Web))

CallGetTaxDocuments == Return("getTaxDocuments", getTaxDocuments(arg))

CallFetchDocumentPaymentCode ==
    Return("fetchConta49DocumentPaymentCode", fetchConta49DocumentPaymentCode(arg))

CallMakePixPayment ==
    Return("makePixPayment", PixRequestAt(arg.payment, arg.now))

CallAuthenticateConta49 == Return("authenticateConta49", authenticateConta49(arg))

NextFn ==
    \/ CallAuthenticateConta49
    \/ CallMakePixPayment
    \/ CallParseInvoiceUrl
    \/ CallExtractPixCode
    \/ CallGetPendingCharges
    \/ CallGetTaxDocuments
    \/ CallFetchDocumentPaymentCode

SpecFn == InitFn /\ [][NextFn]_vars

-----------------------------------------------------------------------------
(***************************************************************************)
(* Properties of the accounting client's functions (SpecFn).               *)
(***************************************************************************)
Called(f) == fn = f /\ returned

\* C6: whatever the page, the scraper returns either nothing or a string
\* whose first eight characters are 00020101; no heuristic lets another
\* candidate through.
C6_PixCodeValidated ==
    Called("extractPixCodeFromAsaPreviewPage") =>
        \/ ret = Absent
        \/ /\ ret.present
           /\ Len(ret.value) >= 8
           /\ SubSeq(ret.value, 1, 8) = "00020101"

\* A page whose PIX section holds a candidate that is not a PIX code, and
\* for which a later heuristic found one.
C6_Witness ==
    /\ Called("extractPixCodeFromAsaPreviewPage")
    /\ arg.ok /\ arg.hasPixSection
    /\ \E i \in 1..Len(arg.paragraphs) :
           arg.paragraphs[i].inPixSection /\ arg.paragraphs[i].text = "Pague com Pix"
    /\ ret.present

KeepsStatus(c) == c.status \in {"PENDING", "OVERDUE"}

\* C7: the charges getPendingCharges returns are exactly those of the
\* payload whose status is PENDING or OVERDUE, in the payload's order, and
\* none has status RECEIVED.
C7_StatusFiltering ==
    (Called("getPendingCharges") /\ ret.ok) =>
        LET kept == SelectSeq(arg.charges, KeepsStatus)
        IN  /\ Len(ret.value) = Len(kept)
            /\ \A i \in 1..Len(kept) :
                   /\ ret.value[i].id = kept[i].id
                   /\ ret.value[i].status = kept[i].status
                   /\ ret.value[i].description = kept[i].description
                   /\ ret.value[i].value = kept[i].value
                   /\ ret.value[i].status # "RECEIVED"

\* A payload with a RECEIVED charge between an OVERDUE and a PENDING one.
C7_Witness ==
    /\ Called("getPendingCharges") /\ ret.ok
    /\ Len(arg.charges) = 3
    /\ arg.charges[1].status = "OVERDUE"
    /\ arg.charges[2].status = "RECEIVED"
    /\ arg.charges[3].status = "PENDING"
    /\ Len(ret.value) = 2

TagSet(doc) == { doc.tags[i] : i \in 1..Len(doc.tags) }

\* C8: a document of the payload is in the result of getTaxDocuments if and
\* only if its tags hold "guia" or "Boleto", spelled so; the result holds
\* nothing else.
C8_TagFiltering ==
    (Called("getTaxDocuments") /\ ret.ok) =>
        /\ \A i \in 1..Len(arg.documents) :
               (\E j \in 1..Len(ret.value) : ret.value[j] = arg.documents[i])
                   <=> (TagSet(arg.documents[i]) \cap {"guia", "Boleto"} # {})
        /\ \A j \in 1..Len(ret.value) :
               \E i \in 1..Len(arg.documents) : ret.value[j] = arg.documents[i]

\* A payload with a document tagged only "invoice", left out, and one
\* tagged "Boleto", kept.
C8_Witness ==
    /\ Called("getTaxDocuments") /\ ret.ok
    /\ Len(arg.documents) = 2
    /\ arg.documents[1].tags = <<"invoice">>
    /\ arg.documents[2].tags = <<"Boleto">>
    /\ Len(ret.value) = 1
    /\ ret.value[1].id = arg.documents[2].id

\* The short links among the inputs: a prefix, "/i/", and an id without "/".
ShortLinkId(url) ==
    { i \in {"ABC123", "x?y=1"} : \E p \in UrlPrefixes : url = p \o "/i/" \o i }

\* C9: a URL holding "/b/preview/" comes back unchanged; otherwise a short
\* link .../i/{id} becomes https://www.asaas.com/b/preview/{id}; any other
\* URL comes back unchanged.
C9_UrlNormalization ==
    Called("parseInvoiceUrl") =>
        IF Includes(arg, "/b/preview/") THEN ret = arg
        ELSE IF ShortLinkId(arg) # {}
             THEN \A i \in ShortLinkId(arg) : ret = "https://www.asaas.com/b/preview/" \o i
             ELSE ret = arg

C9_Witness ==
    /\ Called("parseInvoiceUrl")
    /\ arg = "https://www.asaas.com/i/ABC123"
    /\ ret = "https://www.asaas.com/b/preview/ABC123"

RECURSIVE StripSeparators(_)
StripSeparators(s) ==
    IF s = "" THEN ""
    ELSE IF Char(s, 1) \in {" ", "-"} THEN StripSeparators(SubSeq(s, 2, Len(s)))
    ELSE Char(s, 1) \o StripSeparators(SubSeq(s, 2, Len(s)))

Digits == {"0", "1", "2", "3", "4", "5", "6", "7", "8", "9"}
Is48Digits(s) == Len(s) = 48 /\ \A i \in 1..Len(s) : Char(s, i) \in Digits

\* C10: an answer is turned into a Boleto only if it is text, parses as
\* JSON, has the three string fields, and its payment_code, spaces and
\* hyphens removed, is exactly 48 digits; any other answer is rejected.
C10_ExtractionValidated ==
    Called("fetchConta49DocumentPaymentCode") =>
        /\ ret.ok =>
              /\ arg.contentType = "text" /\ arg.isJson /\ arg.json.isObject
              /\ Is48Digits(StripSeparators(ret.value.payment_code))
        /\ (~arg.isJson \/ ~arg.json.isObject) => ~ret.ok

-----------------------------------------------------------------------------
(***************************************************************************)
(* server/db/schema.ts: the two tables.  A table is a bag of rows; id is   *)
(* the primary key of both, so an insert of a row whose id is there        *)
(* already is refused.                                                     *)
(***************************************************************************)
Ids(table) == { r.id : r \in BagToSet(table) }

RowsWithId(table, id) ==
    LET rows == { r \in BagToSet(table) : r.id = id }
    IN  BagCardinality([r \in rows |-> table[r]])

RECURSIVE AddRows(_, _)
AddRows(table, rows) ==
    IF rows = <<>> THEN table
    ELSE AddRows(table (+) SetToBag({Head(rows)}), Tail(rows))

\* The table without its primary key: every insert is taken.
InsertRowsNoKey(table, rows) == Success(AddRows(table, rows))

\* db.insert(...).values(rows): all the rows or, on a key conflict, none
InsertRows(table, rows) ==
    IF \/ \E i \in 1..Len(rows) : rows[i].id \in Ids(table)
       \/ \E i, j \in 1..Len(rows) : i # j /\ rows[i].id = rows[j].id
    THEN Failure
    ELSE Success(AddRows(table, rows))

\* A row keyed by the description instead of the id.
PaymentEventRowByDescription(charge) ==
    [id |-> charge.description, description |-> charge.description]

\* The row the charges route writes: id and description; the timestamps
\* are the table's defaults.
PaymentEventRow(charge) == [id |-> charge.id, description |-> charge.description]

\* The row the tax-documents route writes: id, created_at, name and
\* payment_code.  It gives no value and no expiration date: the row holds
\* none ("" here), and paid is the table's default.
DocumentRow(new) ==
    [id |-> new.doc.id, name |-> new.doc.name, paid |-> FALSE,
     payment_code |-> IF new.payment_code.present THEN new.payment_code.value ELSE "",
     value |-> "", expiration_date |-> ""]

\* The filter without its second condition.
IsUnpaid(row) == row.paid = FALSE

\* and(eq(paid, false), ne(payment_code, ""))
IsUnpaidBoleto(row) == row.paid = FALSE /\ row.payment_code # ""

\* findMany of the pay-tax-documents route, in the order of the ids
UnpaidBoletos(table) ==
    LET F[i \in 0..(MaxDocs + 1)] ==
            IF i = 0 THEN <<>>
            ELSE LET rows == { r \in BagToSet(table) : r.id = DocIdAt(i) /\ IsUnpaidBoleto(r) }
                 IN  IF rows = {} THEN F[i - 1]
                     ELSE Append(F[i - 1], CHOOSE r \in rows : TRUE)
    IN  F[MaxDocs + 1]

-----------------------------------------------------------------------------
(***************************************************************************)
(* What the outside world answers to the routes.  The accounting service   *)
(* lists the charges and the documents of the account in a fixed order;    *)
(* which of them it lists varies from one request to the next.             *)
(***************************************************************************)
\* The elements of seq at the places S, in order.
Pick(seq, S) ==
    LET F[i \in 0..Len(seq)] ==
            IF i = 0 THEN <<>>
            ELSE IF i \in S THEN Append(F[i - 1], seq[i]) ELSE F[i - 1]
    IN  F[Len(seq)]

Listings(seq, n) == { Pick(seq, S) : S \in { T \in SUBSET (1..Len(seq)) : Cardinality(T) <= n } }

\* The charges of the account that are still open: c1 to c4.
OpenChargeList == SubSeq(AccountChargeList, 1, 4)

PassChargesAnswers ==
    { ChargesAnswer(TRUE, TRUE, TRUE, cs) : cs \in Listings(OpenChargeList, MaxCharges) }
    \cup { ChargesAnswer(FALSE, TRUE, TRUE, <<>>),
           ChargesAnswer(TRUE, TRUE, TRUE, <<AccountChargeList[1], AccountChargeList[5]>>),
           ChargesAnswer(TRUE, TRUE, TRUE, <<AccountChargeList[4], AccountChargeList[1]>>),
           ChargesAnswer(TRUE, TRUE, TRUE, <<RefundedCharge>>) }

AccountDocumentList ==
    << Document("d1", <<"guia">>, "2025-03-01T12:00:00Z"),
       Document("d2", <<"Boleto", "invoice">>, "2025-04-01T09:30:00Z"),
       Document("d3", <<"invoice">>, "2025-04-01T09:30:00Z") >>

PassDocumentsAnswers ==
    { DocumentsAnswer(TRUE, TRUE, ds) : ds \in Listings(AccountDocumentList, MaxDocs) }
    \cup { DocumentsAnswer(FALSE, TRUE, <<>>),
           DocumentsAnswer(TRUE, TRUE, <<Document("d1", <<"guia">>, "yesterday")>>) }

BoletoAnswer(paymentCode) ==
    ExtractionAnswer(TRUE, TRUE, "text", TRUE,
        [isObject |-> TRUE,
         fields |-> [payment_code |-> JsonString(paymentCode),
                     value |-> JsonString("123.45"),
                     expiration_date |-> JsonString("2024-03-15")]])

PassExtractionAnswers ==
    { BoletoAnswer("858900000050682103852509790716250721167229931410"),
      BoletoAnswer(""),
      ExtractionAnswer(TRUE, TRUE, "text", FALSE, NoJson) }

-----------------------------------------------------------------------------
(***************************************************************************)
(* The routes.  A request takes a free slot; its handler runs from one     *)
(* await to the next in each step.                                         *)
(***************************************************************************)
Put(f, p, v) == [f EXCEPT ![p] = v]

\* A request arrives at slot p for route r: the handler's variables start afresh.
Arrives(p, r, bearer) ==
    /\ pc[p] = "idle"
    /\ authorized' = Put(authorized, p, bearer)
    /\ passes < MaxPasses
    /\ passes' = passes + 1
    /\ route' = Put(route, p, r)
    /\ atStart' = Put(atStart, p, [paymentEvents |-> paymentEvents, documents |-> documents])
    /\ log' = Put(log, p, <<>>)
    /\ interToken' = Put(interToken, p, "")

\* The handler answers with status: its last step.
Answers(p, status, body) ==
    /\ response' = Put(response, p, status)
    /\ summary' = Put(summary, p, body)
    /\ pc' = Put(pc, p, "done")

\* The bodies of the answers.  The catch of every route answers
\* {message: "error", error: String(error)}; the text of the error is left out.
Unauthorized == "Unauthorized"
ErrorBody == [message |-> "error"]
Message(text) == [message |-> text]

\* A route that goes on to pay whether or not it has a token.
TokenStepUnchecked(p, r) ==
    /\ pc[p] = "token" /\ route[p] = r
    /\ auths' = Put(auths, p, [auths[p] EXCEPT !.banking = @ + 1])
    /\ \E ok \in BOOLEAN : interToken' = Put(interToken, p, IF ok THEN AccessToken ELSE "")
    /\ pc' = Put(pc, p, "pay")
    /\ idx' = Put(idx, p, 1)
    /\ UNCHANGED <<callVars, storeVars, bankVars, passVars, route, pendingCharges,
                   taxDocuments, newDocuments, boletos, log, atStart, authorized, fetched,
                   response, summary>>

\* generateBancoInterToken: the token, or the error rethrown to the route's catch
TokenStep(p, r) ==
    /\ pc[p] = "token" /\ route[p] = r
    /\ auths' = Put(auths, p, [auths[p] EXCEPT !.banking = @ + 1])
    /\ \E ok \in BOOLEAN :
           IF ok
           THEN /\ interToken' = Put(interToken, p, AccessToken)
                /\ pc' = Put(pc, p, "pay")
                /\ idx' = Put(idx, p, 1)
                /\ UNCHANGED <<response, summary>>
           ELSE /\ Answers(p, 500, ErrorBody)
                /\ UNCHANGED <<interToken, idx>>
    /\ UNCHANGED <<callVars, storeVars, bankVars, passVars, route, pendingCharges,
                   taxDocuments, newDocuments, boletos, log, atStart, authorized, fetched>>

-----------------------------------------------------------------------------
(***************************************************************************)
(* app/api/charges/route.ts                                                *)
(***************************************************************************)
Goes(pcNext, i, status) ==
    [pc |-> pcNext, idx |-> i, response |-> status,
     summary |-> IF status = 500 THEN ErrorBody ELSE NoBody]

\* A loop without its try/catch: the error reaches the route's catch.
OnPixErrorAbort(i) == Goes("done", i, 500)

\* A catch that tries the same charge again.
OnPixErrorRetry(i) == Goes("pay", i, 0)

\* catch (error) { logger.error(...) }: the loop goes on with the next charge
OnPixError(i) == Goes("pay", i + 1, 0)

\* A variant that records the event whatever makePixPayment did.
AfterMakePixPaymentAlwaysRecord(ok, i) == Goes("record", i, 0)

\* await makePixPayment(...): on success the insert comes next
AfterMakePixPayment(ok, i) == IF ok THEN Goes("record", i, 0) ELSE OnPixError(i)

\* A charge that always counts as having a code.
HasPixCodeAlways(charge) == TRUE

\* if (charge.pixCode)
HasPixCode(charge) == charge.pixCode.present /\ charge.pixCode.value # ""

\* {message: "success", count: pendingCharges.length, charges: pendingCharges}
ChargesSummary(charges) ==
    [message |-> "success", count |-> Len(charges), charges |-> charges]

\* The authorization check and getPendingCharges.
ChargesStartOn(p, answers) ==
    /\ \E bearer \in BOOLEAN, answer \in answers :
           LET got == getPendingCharges(answer, Web)
           IN  /\ Arrives(p, "charges", bearer)
               /\ IF ~bearer
                  THEN /\ Answers(p, 401, Unauthorized)
                       /\ UNCHANGED <<pendingCharges, fetched, auths>>
                  ELSE /\ auths' = Put(auths, p, [accounting |-> 1, banking |-> 0])
                       /\ fetched' = Put(fetched, p, [valid |-> got.ok, answer |-> answer])
                       /\ IF ~got.ok
                          THEN Answers(p, 500, ErrorBody) /\ UNCHANGED pendingCharges
                          ELSE IF Len(got.value) = 0
                          THEN /\ Answers(p, 200, Message("No pending charges found"))
                               /\ UNCHANGED pendingCharges
                          ELSE /\ pendingCharges' = Put(pendingCharges, p, got.value)
                               /\ pc' = Put(pc, p, "token")
                               /\ UNCHANGED <<response, summary>>
    /\ UNCHANGED <<callVars, storeVars, bankVars, lastPass, idx, taxDocuments,
                   newDocuments, boletos>>

ChargesStart(p) == ChargesStartOn(p, PassChargesAnswers)

ChargesToken(p) == TokenStep(p, "charges")

\* One turn of the loop, up to the answer of makePixPayment.
ChargesPay(p) ==
    /\ pc[p] = "pay" /\ route[p] = "charges"
    /\ idx[p] <= Len(pendingCharges[p])
    /\ LET charge == pendingCharges[p][idx[p]]
       IN  IF HasPixCode(charge)
           THEN \E ok \in BOOLEAN :
                    LET pixPayment == createPixCopyPastePayment(
                                          charge.value, charge.pixCode.value, charge.description)
                        next == AfterMakePixPayment(ok, idx[p])
                    IN  /\ log' = Put(log, p, Append(log[p],
                               [kind |-> "pix", id |-> charge.id,
                                request |-> PixRequest(pixPayment),
                                token |-> interToken[p], ok |-> ok,
                                before |-> RowsWithId(paymentEvents, charge.id)]))
                        /\ pc' = Put(pc, p, next.pc)
                        /\ idx' = Put(idx, p, next.idx)
                        /\ response' = Put(response, p, next.response)
                        /\ summary' = Put(summary, p, next.summary)
           ELSE /\ idx' = Put(idx, p, idx[p] + 1)      \* logger.warn: no PIX code
                /\ UNCHANGED <<log, pc, response, summary>>
    /\ UNCHANGED <<callVars, storeVars, bankVars, passVars, route, pendingCharges,
                   taxDocuments, newDocuments, boletos, atStart, authorized, fetched, interToken, auths>>

\* await db.insert(paymentEventsTable).values({id, description}).  The store
\* is reachable or not (storeUp: the cases to consider); a store that cannot
\* be reached fails the insert like a key conflict does, and the loop's catch
\* takes either.
ChargesRecordWith(p, storeUp) ==
    /\ pc[p] = "record" /\ route[p] = "charges"
    /\ \E up \in storeUp :
         LET charge == pendingCharges[p][idx[p]]
             inserted == IF up THEN InsertRows(paymentEvents, <<PaymentEventRow(charge)>>)
                         ELSE Failure
             next == IF inserted.ok THEN Goes("pay", idx[p] + 1, 0) ELSE OnPixError(idx[p])
         IN  /\ paymentEvents' = IF inserted.ok THEN inserted.value ELSE paymentEvents
             /\ pc' = Put(pc, p, next.pc)
             /\ idx' = Put(idx, p, next.idx)
             /\ response' = Put(response, p, next.response)
             /\ summary' = Put(summary, p, next.summary)
    /\ UNCHANGED <<callVars, documents, bankVars, passVars, route, pendingCharges,
                   taxDocuments, newDocuments, boletos, log, atStart, authorized, fetched,
                   interToken, auths>>

\* The insert with the store reachable.
ChargesRecord(p) == ChargesRecordWith(p, {TRUE})

\* After the loop: message "success".
ChargesRespond(p) ==
    /\ pc[p] = "pay" /\ route[p] = "charges"
    /\ idx[p] > Len(pendingCharges[p])
    /\ Answers(p, 200, ChargesSummary(pendingCharges[p]))
    /\ UNCHANGED <<callVars, storeVars, bankVars, passVars, route, pendingCharges, idx,
                   taxDocuments, newDocuments, boletos, log, atStart, authorized, fetched,
                   interToken, auths>>

-----------------------------------------------------------------------------
(***************************************************************************)
(* The tax-documents route (unnamed/part_002).                             *)
(***************************************************************************)
\* A document the route has not stored yet, before its payment code is known.
\* payment_code, value and date are the fields the loop sets on it; docUrl is
\* what fetchConta49DocumentPaymentCode returned for it.
NewDocument(doc) ==
    [doc |-> doc, payment_code |-> Absent, value |-> Absent, date |-> Absent,
     docUrl |-> Absent]

\* Every fetched document taken as new, whatever the store holds.
FilterNewAll(docs, dbIds) == [i \in 1..Len(docs) |-> NewDocument(docs[i])]

\* taxDocuments.filter(doc => !dbDocuments.map(d => d.id).includes(doc.id))
RECURSIVE FilterNew(_, _)
FilterNew(docs, dbIds) ==
    IF docs = <<>> THEN <<>>
    ELSE IF Head(docs).id \notin dbIds
         THEN <<NewDocument(Head(docs))>> \o FilterNew(Tail(docs), dbIds)
         ELSE FilterNew(Tail(docs), dbIds)

\* A fetched document as the answer shows it: the new ones are the objects
\* the loop has set payment_code, value and date on.
RECURSIVE BackFilled(_, _)
BackFilled(doc, news) ==
    IF news = <<>> THEN doc
    ELSE IF Head(news).doc.id = doc.id
         THEN [id |-> doc.id, name |-> doc.name, title |-> doc.title,
               description |-> doc.description, tags |-> doc.tags,
               created_at |-> doc.created_at, payment_code |-> Head(news).payment_code,
               value |-> Head(news).value, date |-> Head(news).date]
         ELSE BackFilled(doc, Tail(news))

\* {message: "success", count: taxDocuments.length, taxes: taxDocuments}
DocumentsSummary(docs, news) ==
    [message |-> "success", count |-> Len(docs),
     taxes |-> [i \in 1..Len(docs) |-> BackFilled(docs[i], news)]]

\* The authorization check, getTaxDocuments, findMany and the filter.
DocumentsStartOn(p, answers) ==
    /\ \E bearer \in BOOLEAN, answer \in answers :
           LET got == getTaxDocuments(answer)
               new == FilterNew(got.value, Ids(documents))
           IN  /\ Arrives(p, "documents", bearer)
               /\ IF ~bearer
                  THEN /\ Answers(p, 401, Unauthorized)
                       /\ UNCHANGED <<taxDocuments, newDocuments, idx, fetched, auths>>
                  ELSE /\ auths' = Put(auths, p, [accounting |-> 1, banking |-> 0])
                       /\ fetched' = Put(fetched, p, [valid |-> got.ok, answer |-> answer])
                       /\ IF ~got.ok
                          THEN /\ Answers(p, 500, ErrorBody)
                               /\ UNCHANGED <<taxDocuments, newDocuments, idx>>
                          ELSE /\ taxDocuments' = Put(taxDocuments, p, got.value)
                               /\ IF Len(got.value) = 0 \/ Len(new) = 0
                                  THEN /\ Answers(p, 200,
                                              IF Len(got.value) = 0
                                              THEN Message("No taxes documents found")
                                              ELSE Message("No pending taxes found"))
                                       /\ UNCHANGED <<newDocuments, idx>>
                                  ELSE /\ newDocuments' = Put(newDocuments, p, new)
                                       /\ idx' = Put(idx, p, 1)
                                       /\ pc' = Put(pc, p, "resolve")
                                       /\ UNCHANGED <<response, summary>>
    /\ UNCHANGED <<callVars, storeVars, bankVars, lastPass, pendingCharges, boletos>>

DocumentsStart(p) == DocumentsStartOn(p, PassDocumentsAnswers)

\* One turn of the loop: fetchConta49DocumentPaymentCode(doc.id)
DocumentsResolve(p) ==
    /\ pc[p] = "resolve" /\ route[p] = "documents"
    /\ idx[p] <= Len(newDocuments[p])
    /\ auths' = Put(auths, p, [auths[p] EXCEPT !.accounting = @ + 1])
    /\ \E answer \in PassExtractionAnswers :
           LET docUrl == fetchConta49DocumentPaymentCode(answer)
           IN  IF docUrl.ok
               THEN /\ newDocuments' = Put(newDocuments, p,
                           [newDocuments[p] EXCEPT ![idx[p]] =
                               [@ EXCEPT !.payment_code = Some(docUrl.value.payment_code),
                                         !.value = Some(docUrl.value.value),
                                         !.date = Absent,     \* docUrl has no date
                                         !.docUrl = Some(docUrl.value)]])
                    /\ idx' = Put(idx, p, idx[p] + 1)
                    /\ UNCHANGED <<pc, response, summary>>
               ELSE /\ Answers(p, 500, ErrorBody)
                    /\ UNCHANGED <<newDocuments, idx>>
    /\ UNCHANGED <<callVars, storeVars, bankVars, passVars, route, pendingCharges,
                   taxDocuments, boletos, log, atStart, authorized, fetched, interToken>>

\* db.insert(documents).values(newDocuments.map(...)) and the answer
DocumentsInsert(p) ==
    /\ pc[p] = "resolve" /\ route[p] = "documents"
    /\ idx[p] > Len(newDocuments[p])
    /\ LET rows == [i \in 1..Len(newDocuments[p]) |-> DocumentRow(newDocuments[p][i])]
           inserted == InsertRows(documents, rows)
       IN  IF inserted.ok
           THEN /\ documents' = inserted.value
                /\ Answers(p, 200, DocumentsSummary(taxDocuments[p], newDocuments[p]))
           ELSE UNCHANGED documents /\ Answers(p, 500, ErrorBody)
    /\ UNCHANGED <<callVars, paymentEvents, bankVars, passVars, route, pendingCharges, idx,
                   taxDocuments, newDocuments, boletos, log, atStart, authorized, fetched,
                   interToken, auths>>

-----------------------------------------------------------------------------
(***************************************************************************)
(* app/api/pay-tax-documents/route.ts                                      *)
(***************************************************************************)
\* findMany of the unpaid documents that have a payment code.
PayTaxStart(p) ==
    /\ \E bearer \in BOOLEAN : Arrives(p, "payTax", bearer)    \* the header is not read
    /\ boletos' = Put(boletos, p, UnpaidBoletos(documents))
    /\ pc' = Put(pc, p, "token")
    /\ UNCHANGED <<callVars, storeVars, bankVars, lastPass, pendingCharges, idx, taxDocuments,
                   newDocuments, response, summary, fetched, auths>>

PayTaxToken(p) == TokenStep(p, "payTax")

\* createBoletoBankAccountPayment(boleto, token.access_token) of one boleto:
\* the map starts every one of them, whatever the others answer.
PayTaxPay(p) ==
    /\ pc[p] = "pay" /\ route[p] = "payTax"
    /\ idx[p] <= Len(boletos[p])
    /\ LET boleto == boletos[p][idx[p]]
       IN  \E ok \in BOOLEAN :
               /\ log' = Put(log, p, Append(log[p],
                      [kind |-> "boleto", id |-> boleto.id, request |-> BoletoRequest(boleto),
                       token |-> interToken[p], ok |-> ok,
                       before |-> boletoAccepted[boleto.id]]))
               /\ boletoAccepted' =
                      IF ok THEN [boletoAccepted EXCEPT ![boleto.id] = @ + 1]
                      ELSE boletoAccepted
    /\ idx' = Put(idx, p, idx[p] + 1)
    /\ UNCHANGED <<callVars, storeVars, passVars, pc, route, pendingCharges, taxDocuments,
                   newDocuments, boletos, response,
                   summary, atStart, authorized, fetched, interToken, auths>>

\* await Promise.all(payBoletos): the list of boletos, or the first rejection
PayTaxRespond(p) ==
    /\ pc[p] = "pay" /\ route[p] = "payTax"
    /\ idx[p] > Len(boletos[p])
    /\ IF \A i \in 1..Len(log[p]) : log[p][i].ok
       THEN Answers(p, 200, boletos[p])
       ELSE Answers(p, 500, ErrorBody)
    /\ UNCHANGED <<callVars, storeVars, bankVars, passVars, route, pendingCharges, idx,
                   taxDocuments, newDocuments, boletos, log, atStart, authorized, fetched,
                   interToken, auths>>

-----------------------------------------------------------------------------
(***************************************************************************)
(* Spec: the scheduler calls the three routes, one request after another.  *)
(***************************************************************************)
\* The response is sent and the handler's variables are gone.
Finish(p) ==
    /\ pc[p] = "done"
    /\ pc' = Put(pc, p, "idle")
    /\ lastPass' = IF fetched[p].valid
                    THEN [route |-> route[p], valid |-> TRUE, answer |-> fetched[p].answer]
                    ELSE NoLastPass
    /\ route' = Put(route, p, "none")
    /\ pendingCharges' = Put(pendingCharges, p, <<>>)
    /\ idx' = Put(idx, p, 0)
    /\ taxDocuments' = Put(taxDocuments, p, <<>>)
    /\ newDocuments' = Put(newDocuments, p, <<>>)
    /\ boletos' = Put(boletos, p, <<>>)
    /\ response' = Put(response, p, 0)
    /\ summary' = Put(summary, p, NoBody)
    /\ authorized' = Put(authorized, p, FALSE)
    /\ log' = Put(log, p, <<>>)
    /\ atStart' = Put(atStart, p, NoTables)
    /\ fetched' = Put(fetched, p, NoPass)
    /\ interToken' = Put(interToken, p, "")
    /\ auths' = Put(auths, p, NoAuths)
    /\ UNCHANGED <<callVars, storeVars, bankVars, passes>>

Init == NoCall /\ Idle

Next ==
    \E p \in {1} :
        \/ ChargesStart(p)
        \/ ChargesToken(p)
        \/ ChargesPay(p)
        \/ ChargesRecord(p)
        \/ ChargesRespond(p)
        \/ DocumentsStart(p)
        \/ DocumentsResolve(p)
        \/ DocumentsInsert(p)
        \/ PayTaxStart(p)
        \/ PayTaxToken(p)
        \/ PayTaxPay(p)
        \/ PayTaxRespond(p)
        \/ Finish(p)

Spec == Init /\ [][Next]_vars

-----------------------------------------------------------------------------
(***************************************************************************)
(* SpecConcurrent: requests to the charges route and to the tax-documents  *)
(* route overlap; the steps of two handlers interleave at their awaits.    *)
(* The accounting service lists the first charges and documents of the     *)
(* account.                                                                *)
(***************************************************************************)
ConcurrentChargesAnswers ==
    { ChargesAnswer(TRUE, TRUE, TRUE, SubSeq(AccountChargeList, 1, n)) : n \in 1..2 }

ConcurrentDocumentsAnswers ==
    { DocumentsAnswer(TRUE, TRUE, SubSeq(AccountDocumentList, 1, n)) : n \in 1..2 }

NextConcurrent ==
    \E p \in Slots :
        \/ ChargesStartOn(p, ConcurrentChargesAnswers)
        \/ ChargesToken(p)
        \/ ChargesPay(p)
        \/ ChargesRecord(p)
        \/ ChargesRespond(p)
        \/ DocumentsStartOn(p, ConcurrentDocumentsAnswers)
        \/ DocumentsResolve(p)
        \/ DocumentsInsert(p)
        \/ Finish(p)

SpecConcurrent == Init /\ [][NextConcurrent]_vars

-----------------------------------------------------------------------------
(***************************************************************************)
(* SpecCharges: the charges route alone, one request after another, with a *)
(* store that may be unreachable when the PaymentEvent is inserted.  The   *)
(* runtime runs a started handler on: every await settles.                 *)
(***************************************************************************)
NextCharges ==
    \E p \in {1} :
        \/ ChargesStart(p)
        \/ ChargesToken(p)
        \/ ChargesPay(p)
        \/ ChargesRecordWith(p, BOOLEAN)
        \/ ChargesRespond(p)
        \/ Finish(p)

SpecCharges == Init /\ [][NextCharges]_vars /\ WF_vars(NextCharges)

-----------------------------------------------------------------------------
(***************************************************************************)
(* Properties of the routes, under Spec.                                   *)
(***************************************************************************)
\* The invocation in slot p has answered and is an invocation of route r.
Answered(p, r) == pc[p] = "done" /\ route[p] = r

\* The invocation in slot p got from the accounting service what the
\* invocation just before it got, on the same route.
Repeats(p) ==
    /\ pc[p] = "done"
    /\ fetched[p].valid /\ lastPass.valid
    /\ lastPass.route = route[p]
    /\ lastPass.answer = fetched[p].answer

AllIds == ChargeIds \cup DocIds

\* C1 as the claim states it: after the second of two invocations in
\* succession that got the same charges (or documents), each id has at most
\* one row in each table, and as many rows as after the first.
C1_SameRowCounts ==
    \A p \in Slots : Repeats(p) =>
        \A id \in AllIds :
            /\ RowsWithId(paymentEvents, id) <= 1
            /\ RowsWithId(documents, id) <= 1
            /\ RowsWithId(paymentEvents, id) = RowsWithId(atStart[p].paymentEvents, id)
            /\ RowsWithId(documents, id) = RowsWithId(atStart[p].documents, id)

\* C1, amended: after the second of two invocations in succession that got
\* the same charges (or documents), each id has at most one row in each
\* table, and an id that had a row after the first invocation still has
\* exactly that one row.  An id without a row after the first invocation
\* (its payment or its extraction failed then) may have got one.
C1_IdempotentPass ==
    \A p \in Slots : Repeats(p) =>
        \A id \in AllIds :
            /\ RowsWithId(paymentEvents, id) <= 1
            /\ RowsWithId(documents, id) <= 1
            /\ RowsWithId(atStart[p].paymentEvents, id) >= 1 =>
                   RowsWithId(paymentEvents, id) = RowsWithId(atStart[p].paymentEvents, id)
            /\ RowsWithId(atStart[p].documents, id) >= 1 =>
                   RowsWithId(documents, id) = RowsWithId(atStart[p].documents, id)
            /\ atStart[p].paymentEvents \sqsubseteq paymentEvents
            /\ atStart[p].documents \sqsubseteq documents

\* The second invocation paid a charge that had its row already, the bank
\* took the payment, and the charge still has one row.
C1_Witness ==
    /\ Repeats(1) /\ route[1] = "charges"
    /\ \E i \in 1..Len(log[1]) :
           /\ log[1][i].ok /\ log[1][i].before = 1
           /\ RowsWithId(paymentEvents, log[1][i].id) = 1

\* C2: a PIX payment is submitted for a charge only when the charge has no
\* PaymentEvent at that moment.
C2_SubmittedOnlyWithoutPaymentEvent ==
    \A p \in Slots : \A i \in 1..Len(log[p]) :
        log[p][i].kind = "pix" => log[p][i].before = 0

\* C3: no settlement is submitted for a document whose settlement the bank
\* has accepted before.
C3_NoSecondSettlement ==
    \A p \in Slots : \A i \in 1..Len(log[p]) :
        log[p][i].kind = "boleto" => log[p][i].before = 0

\* C4: when the charges route has answered after paying its list, the answer
\* is 200 whatever submissions failed, and every charge whose submission
\* succeeded has its PaymentEvent.
C4_PartialFailureIsolated ==
    \A p \in Slots : (Answered(p, "charges") /\ interToken[p] # "") =>
        /\ response[p] = 200
        /\ Len(log[p]) =
               Cardinality({ i \in 1..Len(pendingCharges[p]) :
                                 /\ pendingCharges[p][i].pixCode.present
                                 /\ pendingCharges[p][i].pixCode.value # "" })
        /\ \A i \in 1..Len(log[p]) :
               log[p][i].ok => RowsWithId(paymentEvents, log[p][i].id) = 1

\* Three charges, no PaymentEvent before: the second submission failed, the
\* first and the third have their PaymentEvent, the answer is 200.
C4_Witness ==
    /\ Answered(1, "charges")
    /\ atStart[1].paymentEvents = EmptyBag
    /\ Len(log[1]) = 3
    /\ log[1][1].ok /\ ~log[1][2].ok /\ log[1][3].ok
    /\ Ids(paymentEvents) = {log[1][1].id, log[1][3].id}
    /\ response[1] = 200

\* C5: during and after an invocation of the charges route, every
\* PaymentEvent that was not there when it began has the id of a charge whose
\* submission succeeded in this invocation; a charge whose submission failed
\* has the rows it had; and the rows that were there are still there.
C5_RecordedOnlyOnSuccess ==
    \A p \in Slots : (route[p] = "charges" /\ pc[p] # "idle") =>
        /\ \A id \in Ids(paymentEvents) \ Ids(atStart[p].paymentEvents) :
               \E i \in 1..Len(log[p]) :
                   log[p][i].kind = "pix" /\ log[p][i].id = id /\ log[p][i].ok
        /\ \A i \in 1..Len(log[p]) :
               ~log[p][i].ok =>
                   RowsWithId(paymentEvents, log[p][i].id) =
                       RowsWithId(atStart[p].paymentEvents, log[p][i].id)
        /\ atStart[p].paymentEvents \sqsubseteq paymentEvents

\* One submission succeeded and has its row, another failed and has none.
C5_Witness ==
    /\ Answered(1, "charges")
    /\ \E i, j \in 1..Len(log[1]) :
           /\ log[1][i].ok /\ ~log[1][j].ok
           /\ log[1][i].id \in Ids(paymentEvents) \ Ids(atStart[1].paymentEvents)
           /\ log[1][j].id \notin Ids(paymentEvents)

\* C11: every boleto settlement submitted to the bank is for a stored
\* document that is unpaid and has a payment code that is not the empty
\* string, and carries that code.
C11_NoEmptyPaymentCodeSubmitted ==
    \A p \in Slots : \A i \in 1..Len(log[p]) :
        log[p][i].kind = "boleto" =>
            /\ log[p][i].request.codBarraLinhaDigitavel # ""
            /\ \E row \in BagToSet(documents) :
                   /\ row.id = log[p][i].id
                   /\ row.paid = FALSE
                   /\ row.payment_code = log[p][i].request.codBarraLinhaDigitavel

\* The store holds a document without a payment code and one with a code:
\* the pass has submitted the second and not the first.
C11_Witness ==
    /\ Answered(1, "payTax")
    /\ Len(log[1]) >= 1
    /\ \E row \in BagToSet(documents) :
           /\ row.payment_code = "" /\ row.paid = FALSE
           /\ \A i \in 1..Len(log[1]) : log[1][i].id # row.id

IdsOf(docs) == { docs[i].id : i \in 1..Len(docs) }
NewIds(p) == { newDocuments[p][i].doc.id : i \in 1..Len(newDocuments[p]) }

C13_RowCarriesExtraction ==
    \A p \in Slots : (Answered(p, "documents") /\ response[p] = 200) =>
        \A i \in 1..Len(newDocuments[p]) :
            LET new == newDocuments[p][i]
            IN  new.docUrl.present =>
                    \E row \in BagToSet(documents) :
                        /\ row.id = new.doc.id
                        /\ row.payment_code = new.docUrl.value.payment_code
                        /\ row.value = new.docUrl.value.value
                        /\ row.expiration_date = new.docUrl.value.expiration_date

\* C14: in an invocation of the charges route, a pending charge without a
\* PIX code has no payment submitted and gets no PaymentEvent; when the
\* route has gone through its list it answers 200, and every charge of the
\* list that has a code has had its payment submitted.
C14_NoPixCodeSkipped ==
    \A p \in Slots : (route[p] = "charges" /\ pc[p] # "idle") =>
        LET charges == pendingCharges[p]
            NoCode(i) == ~charges[i].pixCode.present \/ charges[i].pixCode.value = ""
        IN  /\ \A i \in 1..Len(charges) : NoCode(i) =>
                   /\ \A k \in 1..Len(log[p]) : log[p][k].id # charges[i].id
                   /\ RowsWithId(paymentEvents, charges[i].id) =
                          RowsWithId(atStart[p].paymentEvents, charges[i].id)
            /\ (pc[p] = "done" /\ interToken[p] # "") =>
                   /\ response[p] = 200
                   /\ \A i \in 1..Len(charges) : ~NoCode(i) =>
                          \E k \in 1..Len(log[p]) : log[p][k].id = charges[i].id

\* A charge without a code comes first in the list: nothing was submitted
\* for it, the charge after it was paid and recorded, the answer is 200.
C14_Witness ==
    /\ Answered(1, "charges") /\ response[1] = 200
    /\ Len(pendingCharges[1]) = 2
    /\ ~pendingCharges[1][1].pixCode.present
    /\ Len(log[1]) = 1
    /\ log[1][1].id = pendingCharges[1][2].id /\ log[1][1].ok
    /\ Ids(paymentEvents) = {pendingCharges[1][2].id}

\* The page of the charge could not be fetched or read.
ScrapeFails(charge) == ~PageAt(Web, parseInvoiceUrl(charge.invoiceUrl)).ok

\* C15: the scraper answers a page it cannot fetch or read with no code, and
\* getPendingCharges still returns one entry for every pending charge of the
\* payload, in order; the entry of a charge whose page failed has no pixCode.
C15_ScrapeFailureContained ==
    /\ (Called("extractPixCodeFromAsaPreviewPage") /\ ~arg.ok) => ret = Absent
    /\ (Called("getPendingCharges") /\ arg.authOk /\ arg.accountIdSet /\ arg.hasPayload
            /\ \A i \in 1..Len(arg.charges) : ChargeSchema(arg.charges[i])) =>
           LET pending == SelectSeq(arg.charges, KeepsStatus)
           IN  /\ ret.ok
               /\ Len(ret.value) = Len(pending)
               /\ \A i \in 1..Len(pending) :
                      /\ ret.value[i].id = pending[i].id
                      /\ ScrapeFails(pending[i]) => ~ret.value[i].pixCode.present

\* The page of the first of three pending charges cannot be fetched: it is
\* returned without a code, the two after it with theirs.
C15_Witness ==
    /\ Called("getPendingCharges") /\ ret.ok
    /\ Len(arg.charges) = 3 /\ Len(ret.value) = 3
    /\ ScrapeFails(arg.charges[1])
    /\ ~ret.value[1].pixCode.present
    /\ ret.value[2].pixCode.present /\ ret.value[3].pixCode.present

\* The invocation asked the accounting service and the authentication failed.
AccountingAuthFailed(p) == auths[p].accounting >= 1 /\ ~fetched[p].answer.authOk

\* The invocation asked the bank for a token and got none.
BankingAuthFailed(p) == auths[p].banking >= 1 /\ interToken[p] = ""

\* C16: an invocation whose authentication to the accounting service or to
\* the bank failed has answered 500, has submitted no payment and has left
\* both tables as they were.
C16_AuthFailureAborts ==
    \A p \in Slots : (pc[p] = "done" /\ (AccountingAuthFailed(p) \/ BankingAuthFailed(p))) =>
        /\ response[p] = 500
        /\ log[p] = <<>>
        /\ paymentEvents = atStart[p].paymentEvents
        /\ documents = atStart[p].documents

\* The charges route had charges to pay and got no token.
C16_Witness ==
    /\ Answered(1, "charges") /\ BankingAuthFailed(1)
    /\ \E i \in 1..Len(pendingCharges[1]) : pendingCharges[1][i].pixCode.present
    /\ response[1] = 500 /\ log[1] = <<>>

\* C17: a request without the bearer secret is answered 401 at once, on every
\* route: it authenticates nowhere, submits nothing and writes nothing.
C17_UnauthorizedRejected ==
    \A p \in Slots : (pc[p] # "idle" /\ ~authorized[p]) =>
        /\ pc[p] = "done"
        /\ response[p] = 401
        /\ auths[p] = NoAuths
        /\ log[p] = <<>>
        /\ paymentEvents = atStart[p].paymentEvents
        /\ documents = atStart[p].documents
        /\ boletos[p] = <<>>

\* What fails before any item is looked at: the top-level fetch (its
\* authentication included) or the bank's token.
PassLevelFailure(p) ==
    \/ auths[p].accounting >= 1 /\ ~fetched[p].valid
    \/ BankingAuthFailed(p)

\* C18: a route answers 500 only when the invocation failed as a whole; the
\* failure of one payment, one settlement or one extraction does not make
\* the answer 500.
C18_ServerErrorOnlyForPassLevelFailure ==
    \A p \in Slots : (pc[p] = "done" /\ response[p] = 500) => PassLevelFailure(p)

\* C19: when the tax-documents route has answered, every new document whose
\* payment code was resolved is stored, whether or not the resolution of
\* another new document failed.
C19_ExtractionFailureIsolated ==
    \A p \in Slots : Answered(p, "documents") =>
        \A i \in 1..Len(newDocuments[p]) :
            newDocuments[p][i].docUrl.present =>
                newDocuments[p][i].doc.id \in Ids(documents)

\* The number of payments of this invocation that the bank accepted.
PaidCount(p) == Cardinality({ i \in 1..Len(log[p]) : log[p][i].kind = "pix" /\ log[p][i].ok })

\* C20: the summary of the charges route gives the number of charges seen
\* and, in a field of its own, the number paid, which is the number of
\* payments accepted; the summary of the tax-documents route gives the number
\* of documents seen and, in a field of its own, the number new.
C20_SummaryCounts ==
    \A p \in Slots : (pc[p] = "done" /\ response[p] = 200 /\ route[p] # "payTax"
                          /\ summary[p].message = "success") =>
        /\ summary[p].count = Len(pendingCharges[p]) + Len(taxDocuments[p])
        /\ route[p] = "charges" =>
               \E f \in DOMAIN summary[p] \ {"message", "count", "charges"} :
                   summary[p][f] = PaidCount(p)
        /\ route[p] = "documents" =>
               \E f \in DOMAIN summary[p] \ {"message", "count", "taxes"} :
                   summary[p][f] = Len(newDocuments[p])

\* C21: the store holds no PaymentEvent, the accounting service lists one
\* charge, PENDING, whose page gives a code that starts with 00020101, and
\* the bank gives a token and accepts what is submitted: the route has
\* submitted exactly one PIX payment, the store holds exactly one
\* PaymentEvent, with the id of the charge, and the summary says count 1.
C21_EndToEnd ==
    \A p \in Slots :
        ( /\ Answered(p, "charges")
          /\ atStart[p].paymentEvents = EmptyBag
          /\ fetched[p].valid
          /\ Len(fetched[p].answer.charges) = 1
          /\ fetched[p].answer.charges[1].status = "PENDING"
          /\ Len(pendingCharges[p]) = 1
          /\ pendingCharges[p][1].pixCode.present
          /\ StartsWith(pendingCharges[p][1].pixCode.value, "00020101")
          /\ interToken[p] # ""
          /\ \A k \in 1..Len(log[p]) : log[p][k].ok ) =>
        /\ Len(log[p]) = 1
        /\ log[p][1].kind = "pix" /\ log[p][1].id = fetched[p].answer.charges[1].id
        /\ BagCardinality(paymentEvents) = 1
        /\ Ids(paymentEvents) = {fetched[p].answer.charges[1].id}
        /\ response[p] = 200
        /\ summary[p].count = 1

\* That scenario, with charge c1.
C21_Witness ==
    /\ Answered(1, "charges")
    /\ atStart[1].paymentEvents = EmptyBag /\ atStart[1].documents = EmptyBag
    /\ fetched[1].valid
    /\ Len(fetched[1].answer.charges) = 1
    /\ fetched[1].answer.charges[1].id = "c1"
    /\ Len(log[1]) = 1 /\ log[1][1].ok
    /\ Ids(paymentEvents) = {"c1"}
    /\ summary[1].count = 1

\* C22: however the steps of two invocations interleave, no id has two rows
\* in the documents table and no id has two rows in the payment events.
C22_NoDuplicateRows ==
    \A id \in AllIds :
        /\ RowsWithId(documents, id) <= 1
        /\ RowsWithId(paymentEvents, id) <= 1

\* Two overlapping invocations of the tax-documents route took the same
\* document as new: one has inserted it, the insert of the other was refused.
C22_Witness ==
    /\ Answered(1, "documents") /\ Answered(2, "documents")
    /\ \E id \in NewIds(1) \cap NewIds(2) : RowsWithId(documents, id) = 1
    /\ {response[1], response[2]} = {200, 500}
    /\ \A i \in 1..Len(newDocuments[2]) : newDocuments[2][i].docUrl.present
    /\ \A i \in 1..Len(newDocuments[1]) : newDocuments[1][i].docUrl.present

\* C29: two overlapping invocations of the charges route that both began
\* with no PaymentEvent for a charge do not both submit a payment for it.
C29_AtMostOncePayment ==
    \A p, q \in Slots : \A i \in 1..Len(log[p]) : \A k \in 1..Len(log[q]) :
        ~ ( /\ p # q
            /\ log[p][i].kind = "pix" /\ log[q][k].kind = "pix"
            /\ log[p][i].id = log[q][k].id
            /\ log[p][i].id \notin Ids(atStart[p].paymentEvents)
            /\ log[p][i].id \notin Ids(atStart[q].paymentEvents) )

\* Where charge i of the list of slot p stands in this invocation.
ChargeState(p, i) ==
    LET charge == pendingCharges[p][i]
        tried == { k \in 1..Len(log[p]) : log[p][k].id = charge.id }
    IN  IF ~charge.pixCode.present \/ charge.pixCode.value = "" THEN "PIX_ABSENT"
        ELSE IF tried = {} THEN "PIX_RESOLVED"
        ELSE IF \E k \in tried : log[p][k].ok THEN "PAID"
        ELSE "FAILED"

C28_PaidImpliesRecorded ==
    \A p \in Slots : Answered(p, "charges") =>
        \A k \in 1..Len(log[p]) :
            (log[p][k].kind = "pix" /\ log[p][k].ok) => log[p][k].id \in Ids(paymentEvents)


\* C24: an invocation authenticates with the bank at most once and with the
\* accounting service at most once, however many charges and documents it
\* goes through, and every payment it submits comes after the banking
\* authentication and carries that one token.
C24_AuthenticatedOnce ==
    \A p \in Slots : pc[p] # "idle" =>
        /\ auths[p].banking <= 1
        /\ auths[p].accounting <= 1
        /\ \A k \in 1..Len(log[p]) :
               /\ auths[p].banking = 1
               /\ log[p][k].token = interToken[p]


\* C25: makePixPayment posts a payment that has no payment date, or an empty
\* one, with the date of the day, ten characters YYYY-MM-DD; it posts a
\* payment that has a date with that date; and the other fields of the
\* payment are posted as they were given in both cases.
C25_PaymentDateDefault ==
    Called("makePixPayment") =>
        LET payment == arg.payment
            date == ret.dataPagamento
        IN  /\ DOMAIN ret = DOMAIN payment
            /\ \A f \in DOMAIN payment \ {"dataPagamento"} : ret[f] = payment[f]
            /\ IF ~payment.dataPagamento.present \/ payment.dataPagamento.value = ""
               THEN /\ date.present
                    /\ Len(date.value) = 10
                    /\ Char(date.value, 5) = "-" /\ Char(date.value, 8) = "-"
                    /\ date.value = SubSeq(arg.now, 1, 10)
               ELSE date = payment.dataPagamento

\* A payment without a date was posted on a day other than the one the
\* routes run on.
C25_Witness ==
    /\ Called("makePixPayment")
    /\ ~arg.payment.dataPagamento.present
    /\ arg.payment.valor = 150
    /\ ret.dataPagamento = Some("2026-11-04")


\* C26: authenticateConta49 fails, and returns no session, when one of the
\* three credentials is unset, when the identity provider rejects them, when
\* the session exchange's answer has no cookie, and when none of its cookies
\* starts with "session="; when it succeeds the session value is the text of
\* the first such cookie after "session=" and before the first ";".
C26_AuthenticationFailures ==
    Called("authenticateConta49") =>
        LET sessionCookies == { i \in 1..Len(arg.cookies) :
                                  /\ Len(arg.cookies[i]) >= 8
                                  /\ SubSeq(arg.cookies[i], 1, 8) = "session=" }
        IN  /\ (\E c \in {arg.email, arg.password, arg.apiKey} : ~c.present) => ~ret.ok
            /\ ~arg.identityOk => ~ret.ok
            /\ (~arg.hasCookies \/ arg.cookies = <<>>) => ~ret.ok
            /\ sessionCookies = {} => ~ret.ok
            /\ ~ret.ok => ret = Failure
            /\ ret.ok =>
                 /\ sessionCookies # {}
                 /\ LET cookie == arg.cookies[CHOOSE i \in sessionCookies :
                                                  \A j \in sessionCookies : i <= j]
                        session == ret.value.sessionCookie
                        end == 8 + Len(session)
                    IN  /\ end <= Len(cookie)
                        /\ SubSeq(cookie, 1, end) = "session=" \o session
                        /\ \A i \in 1..Len(session) : Char(session, i) # ";"
                        /\ end = Len(cookie) \/ Char(cookie, end + 1) = ";"

\* The authentication succeeded on an answer whose session cookie comes
\* second and has attributes.
C26_Witness ==
    /\ Called("authenticateConta49")
    /\ arg.cookies = <<"other=1; Path=/", "session=abc; Path=/; HttpOnly">>
    /\ ret.ok /\ ret.value.sessionCookie = "abc"


\* C27: when the payload of the charges is missing, or one of its rows has a
\* status other than PENDING, OVERDUE and RECEIVED, getPendingCharges fails
\* and returns no charge, whatever the other rows are; when the payload of
\* the documents is missing, or one of its rows has a created_at that is not
\* a date-time, getTaxDocuments fails and returns no document.
C27_ValidationAllOrNothing ==
    /\ Called("getPendingCharges") =>
           ((\/ ~arg.hasPayload
             \/ \E i \in 1..Len(arg.charges) :
                    arg.charges[i].status \notin {"PENDING", "OVERDUE", "RECEIVED"})
            => ret = Failure)
    /\ Called("getTaxDocuments") =>
           ((\/ ~arg.hasPayload
             \/ \E i \in 1..Len(arg.documents) :
                    arg.documents[i].created_at \notin IsoDateTimes)
            => ret = Failure)

\* getPendingCharges failed on a payload whose first row is a pending charge
\* with a PIX code and whose second row has an unknown status.
C27_Witness ==
    /\ Called("getPendingCharges")
    /\ arg.authOk /\ arg.accountIdSet /\ arg.hasPayload
    /\ arg.charges = <<AccountChargeList[1], RefundedCharge>>
    /\ ret = Failure


\* C30: every PIX payment the charges route submits is a copy-and-paste
\* payment whose amount, code and description are those of one charge of the
\* list, the charge the payment is logged for; and a PaymentEvent that
\* appears has the id and the description of the charge whose payment was
\* the last one submitted, and accepted, by the invocation that inserts it.
C30_PaymentBuiltFromOneCharge ==
    /\ [](\A p \in Slots : route[p] = "charges" =>
              \A k \in 1..Len(log[p]) :
                  \E i \in 1..Len(pendingCharges[p]) :
                      LET charge == pendingCharges[p][i]
                          request == log[p][k].request
                      IN  /\ log[p][k].kind = "pix"
                          /\ log[p][k].id = charge.id
                          /\ request.destinatario.tipo = "PIX_COPIA_E_COLA"
                          /\ request.valor = charge.value
                          /\ charge.pixCode.present
                          /\ request.destinatario.pixCopiaECola = charge.pixCode.value
                          /\ request.descricao = charge.description)
    /\ [][\A row \in DOMAIN paymentEvents' :
              row \notin DOMAIN paymentEvents =>
                  \E p \in Slots :
                      /\ route[p] = "charges" /\ Len(log[p]) > 0
                      /\ LET last == log[p][Len(log[p])]
                         IN  /\ last.ok /\ last.id = row.id
                             /\ last.request.descricao = row.description]_vars

\* Two charges of different amounts were paid and recorded in one invocation.
C30_Witness ==
    /\ Answered(1, "charges") /\ Len(log[1]) = 2
    /\ log[1][1].ok /\ log[1][2].ok
    /\ log[1][1].request.valor # log[1][2].request.valor
    /\ log[1][1].request.destinatario.pixCopiaECola # log[1][2].request.destinatario.pixCopiaECola
    /\ {log[1][1].id, log[1][2].id} \subseteq Ids(paymentEvents)

=============================================================================
